---- MODULE Spec2Model ----
(***************************************************************************)
(* shade/task_manager.py: BaseTask, Task, RequestTask, the task class      *)
(* built by generate_task_class (RunTask) and TaskManager.                 *)
(*                                                                         *)
(* Spec      sequences of whole operations (run, done, exception, wait)    *)
(*           issued one after the other on a task.                         *)
(* SpecConc  one producer thread executing run(client) statement by        *)
(*           statement, interleaved with observer threads executing wait.  *)
(* SpecIso   whole operations issued in any order on two task instances    *)
(*           that go through the same manager.                             *)
(***************************************************************************)
EXTENDS Integers, Sequences, FiniteSets, TLC

VARIABLES cls, task, args, manager, last, ran, ops, ppc, pl, wpc, wl, wr

vars == <<cls, task, args, manager, last, ran, ops, ppc, pl, wpc, wl, wr>>

(***************************************************************************)
(* Bounds.                                                                 *)
(***************************************************************************)
\* operations issued on one task in Spec
MaxOps == 3
\* observer threads in SpecConc
NumObservers == 2

\* operations issued on the two instances together in SpecIso
MaxIsoOps == 2

\* the task instances; Spec and SpecConc operate on the first one
Instances == {1, 2}
TaskIds == {1}
Observers == 1 .. NumObservers

(***************************************************************************)
(* Python values.  A value is a record: kind is its Python type, items its *)
(* content (element identities), rid the request id merged into a mapping, *)
(* f = 1 when it is the image of a result filter callback.                 *)
(***************************************************************************)
Val(k, i) == [kind |-> k, items |-> i, rid |-> 0, f |-> 0]

None == Val("None", <<>>)

\* what main() of a Task / RunTask may return
MainValues ==
    { None, Val("int", <<7>>), Val("object", <<1>>),
      Val("list", <<1, 2>>), Val("generator", <<1, 2>>),
      Val("bool", <<0>>), Val("float", <<3>>), Val("str", <<8>>),
      Val("set", <<1, 2>>), Val("tuple", <<1, 2>>) }

\* the content left in a value: a generator that was iterated is exhausted
View(v, consumed) ==
    IF v.kind = "generator" /\ consumed THEN [v EXCEPT !.items = <<>>] ELSE v

(***************************************************************************)
(* Exceptions.  truthy is bool(e): an exception class may define __bool__  *)
(* or __len__.  NoErr stands for None in _exception.                       *)
(***************************************************************************)
Err(c, i, b) == [cls |-> c, id |-> i, truthy |-> b]

NoErr == Err("None", 0, FALSE)

RetriableA == Err("RetriableConnectionFailure", 1, TRUE)
RetriableB == Err("RetriableConnectionFailure", 2, TRUE)
WorkError == Err("WorkError", 3, TRUE)
FalsyError == Err("FalsyError", 4, FALSE)
KeyError == Err("KeyError", 5, TRUE)
TypeError == Err("TypeError", 6, TRUE)
LogError == Err("AttributeError", 7, TRUE)
AttributeError == Err("AttributeError", 8, TRUE)

IsRetriable(e) == e.cls = "RetriableConnectionFailure"

\* sys.exc_info()[2] for a raised exception; 0 is None
Traceback(e) == e.id

(***************************************************************************)
(* Transport responses handed to RequestTask.done.                         *)
(***************************************************************************)
Resp(ok, haskey, body, keyval, reqid) ==
    [present |-> TRUE, ok |-> ok, haskey |-> haskey, body |-> body,
     keyval |-> keyval, text |-> Val("str", <<8>>), reqid |-> reqid]

NoResp ==
    [present |-> FALSE, ok |-> FALSE, haskey |-> FALSE, body |-> None,
     keyval |-> None, text |-> None, reqid |-> 0]

\* JSON body {"k": [1, 2]}, header x-openstack-request-id present
RespKey == Resp(TRUE, TRUE, Val("dict", <<9>>), Val("list", <<1, 2>>), 5)
\* JSON body without the key "k", no request id header
RespNoKey == Resp(TRUE, FALSE, Val("dict", <<6>>), None, 0)
\* body that is not JSON
RespBad == Resp(FALSE, FALSE, None, None, 5)

Responses == {RespKey, RespNoKey, RespBad}

(***************************************************************************)
(* Clients: client 1 has a working log, client 2 has a log whose debug()   *)
(* raises; 0 is "attribute _client not set".                               *)
(***************************************************************************)
Clients == {1, 2}

LogWorks(client) == client = 1

(***************************************************************************)
(* Task classes.                                                           *)
(***************************************************************************)
TaskCls(variant, key, filter) ==
    [variant |-> variant, result_key |-> key, filter |-> filter]

Classes ==
    { TaskCls("Task", FALSE, "identity"),
      TaskCls("RequestTask", FALSE, "identity"),
      TaskCls("RequestTask", TRUE, "identity"),
      TaskCls("RunTask", FALSE, "identity"),
      TaskCls("RunTask", FALSE, "cb") }

\* the outcome of one execution of main(client)
Returns(v, r) == [raises |-> FALSE, err |-> NoErr, val |-> v, resp |-> r]
Raises(e) == [raises |-> TRUE, err |-> e, val |-> None, resp |-> NoResp]

NoOutcome == Raises(NoErr)

Results(c) ==
    IF c.variant = "RequestTask"
    THEN {Returns(None, r) : r \in Responses}
    ELSE {Returns(v, NoResp) : v \in MainValues}

main(c, attempt) ==
    Results(c) \cup
    {Raises(e) : e \in {IF attempt = 1 THEN RetriableA ELSE RetriableB,
                        WorkError, FalsyError}}

\* the outcomes of a second execution of main, which only takes place after
\* a first one that raised the retriable failure
retry(c, o1) ==
    IF o1.raises /\ IsRetriable(o1.err) THEN main(c, 2) ELSE {NoOutcome}

(***************************************************************************)
(* BaseTask.__init__                                                       *)
(***************************************************************************)
NewTask ==
    [_exception |-> NoErr, _traceback |-> 0, _result |-> None,
     _response |-> NoResp, _finished |-> FALSE, _request_id |-> -1,
     _client |-> 0, consumed |-> FALSE]

(***************************************************************************)
(* Result shape classifiers and the conversion routines of shade.meta.     *)
(***************************************************************************)
_is_listlike(obj) == obj.kind \in {"list", "generator"}

\* the classifier as it would be if tuples were not excluded
_is_objlike_ConvertsTuples(obj) ==
    obj.kind \notin {"bool", "int", "float", "str", "set"}

_is_objlike(obj) ==
    obj.kind \notin {"bool", "int", "float", "str", "set", "tuple"}

obj_to_dict(obj, request_id) ==
    [kind |-> "mapping", items |-> obj.items, rid |-> request_id, f |-> 0]

obj_list_to_dict(obj_list, request_id) ==
    [kind |-> "mappings", items |-> obj_list.items, rid |-> request_id,
     f |-> 0]

_result_filter_cb(result) == result

result_filter_cb(c, result) ==
    IF c.filter = "identity" THEN _result_filter_cb(result)
    ELSE [result EXCEPT !.f = 1]

(***************************************************************************)
(* done / exception                                                        *)
(***************************************************************************)
\* an operation's effect: the task afterwards and the exception that
\* escaped it (NoErr when it returned)
Effect(s, e) == [s |-> s, raised |-> e]

BaseTask_done(s, result) ==
    Effect([s EXCEPT !._result = result.val, !.consumed = FALSE,
                     !._finished = TRUE], NoErr)

\* done as it would be if the decoded body were stored before narrowing
\* RequestTask.done as it would be if the result_key were not applied
RequestTask_done_IgnoresKey(c, s, result) ==
    LET s1 == [s EXCEPT !._response = result.resp]
        decoded == result.resp.ok
        result_json == IF decoded THEN result.resp.body
                       ELSE result.resp.text
        logged == decoded \/ LogWorks(s._client)
        lookup == IF ~c.result_key THEN NoErr
                  ELSE IF result_json.kind # "dict" THEN TypeError
                  ELSE IF ~result.resp.haskey THEN KeyError
                  ELSE NoErr
    IN  IF ~logged
        THEN Effect(s1, IF s._client = 0 THEN AttributeError ELSE LogError)
        ELSE IF lookup # NoErr THEN Effect(s1, lookup)
        ELSE Effect([s1 EXCEPT !._result = result_json, !.consumed = FALSE,
                               !._request_id = result.resp.reqid,
                               !._finished = TRUE], NoErr)

RequestTask_done_StoresBody(c, s, result) ==
    LET s1 == [s EXCEPT !._response = result.resp]
        decoded == result.resp.ok
        result_json == IF decoded THEN result.resp.body
                       ELSE result.resp.text
        logged == decoded \/ LogWorks(s._client)
        lookup == IF ~c.result_key THEN NoErr
                  ELSE IF result_json.kind # "dict" THEN TypeError
                  ELSE IF ~result.resp.haskey THEN KeyError
                  ELSE NoErr
        stored == IF c.result_key THEN result.resp.keyval ELSE result_json
    IN  IF ~logged
        THEN Effect(s1, IF s._client = 0 THEN AttributeError ELSE LogError)
        ELSE IF lookup # NoErr
        THEN Effect([s1 EXCEPT !._result = result_json], lookup)
        ELSE Effect([s1 EXCEPT !._result = stored, !.consumed = FALSE,
                               !._request_id = result.resp.reqid,
                               !._finished = TRUE], NoErr)

RequestTask_done(c, s, result) ==
    LET s1 == [s EXCEPT !._response = result.resp]
        decoded == result.resp.ok
        result_json == IF decoded THEN result.resp.body
                       ELSE result.resp.text
        logged == decoded \/ LogWorks(s._client)
        lookup == IF ~c.result_key THEN NoErr
                  ELSE IF result_json.kind # "dict" THEN TypeError
                  ELSE IF ~result.resp.haskey THEN KeyError
                  ELSE NoErr
        stored == IF c.result_key THEN result.resp.keyval ELSE result_json
    IN  IF ~logged
        THEN Effect(s1, IF s._client = 0 THEN AttributeError ELSE LogError)
        ELSE IF lookup # NoErr THEN Effect(s1, lookup)
        ELSE Effect([s1 EXCEPT !._result = stored, !.consumed = FALSE,
                               !._request_id = result.resp.reqid,
                               !._finished = TRUE], NoErr)

done(c, s, result) ==
    IF c.variant = "RequestTask" THEN RequestTask_done(c, s, result)
    ELSE BaseTask_done(s, result)

\* exception as it would be if it recorded the error without setting the
\* finished signal
exception_NoSignal(s, e, tb) ==
    [s EXCEPT !._exception = e, !._traceback = tb]

exception(s, e, tb) ==
    [s EXCEPT !._exception = e, !._traceback = tb, !._finished = TRUE]

(***************************************************************************)
(* run                                                                     *)
(***************************************************************************)
\* self.done(self.main(client)): the exception that leaves the statement
Attempt(c, s, o) ==
    IF o.raises THEN Effect(s, o.err) ELSE done(c, s, o)

\* calls is the number of executions of main, a1 the exception that ended
\* the first attempt (NoErr when it completed)
RunEffect(s, calls, a1) == [s |-> s, calls |-> calls, a1 |-> a1]

\* run as it would be if a lookup failure inside done were retried as well
run_RetriesLookupFailure(c, s, client, o1, o2) ==
    LET s0 == [s EXCEPT !._client = client]
        a1 == Attempt(c, s0, o1)
        a2 == Attempt(c, a1.s, IF o1.raises THEN o2 ELSE o1)
    IN  IF a1.raised = NoErr THEN RunEffect(a1.s, 1, NoErr)
        ELSE IF ~IsRetriable(a1.raised) /\ a1.raised # KeyError
        THEN RunEffect(exception(a1.s, a1.raised, Traceback(a1.raised)),
                       1, a1.raised)
        ELSE IF ~LogWorks(client)
        THEN RunEffect(exception(a1.s, LogError, Traceback(LogError)),
                       1, a1.raised)
        ELSE IF a2.raised = NoErr THEN RunEffect(a2.s, 2, a1.raised)
        ELSE RunEffect(exception(a2.s, a2.raised, Traceback(a2.raised)),
                       2, a1.raised)

\* run as it would be if the first, retriable failure were recorded before
\* the retry
run_RecordsFirstFailure(c, s, client, o1, o2) ==
    LET s0 == [s EXCEPT !._client = client]
        a1 == Attempt(c, s0, o1)
        s1 == exception(a1.s, a1.raised, Traceback(a1.raised))
        a2 == Attempt(c, s1, o2)
    IN  IF a1.raised = NoErr THEN RunEffect(a1.s, 1, NoErr)
        ELSE IF ~IsRetriable(a1.raised) THEN RunEffect(s1, 1, a1.raised)
        ELSE IF ~LogWorks(client)
        THEN RunEffect(exception(a1.s, LogError, Traceback(LogError)),
                       1, a1.raised)
        ELSE IF a2.raised = NoErr THEN RunEffect(a2.s, 2, a1.raised)
        ELSE RunEffect(exception(a2.s, a2.raised, Traceback(a2.raised)),
                       2, a1.raised)

\* run as it would be if a failure of the retry were reported as the
\* failure of the first attempt
run_ReportsFirstFailure(c, s, client, o1, o2) ==
    LET s0 == [s EXCEPT !._client = client]
        a1 == Attempt(c, s0, o1)
        a2 == Attempt(c, a1.s, o2)
    IN  IF a1.raised = NoErr THEN RunEffect(a1.s, 1, NoErr)
        ELSE IF ~IsRetriable(a1.raised)
        THEN RunEffect(exception(a1.s, a1.raised, Traceback(a1.raised)),
                       1, a1.raised)
        ELSE IF ~LogWorks(client)
        THEN RunEffect(exception(a1.s, LogError, Traceback(LogError)),
                       1, a1.raised)
        ELSE IF a2.raised = NoErr THEN RunEffect(a2.s, 2, a1.raised)
        ELSE RunEffect(exception(a2.s, a1.raised, Traceback(a1.raised)),
                       2, a1.raised)

run(c, s, client, o1, o2) ==
    LET s0 == [s EXCEPT !._client = client]
        a1 == Attempt(c, s0, o1)
        a2 == Attempt(c, a1.s, o2)
    IN  IF a1.raised = NoErr THEN RunEffect(a1.s, 1, NoErr)
        ELSE IF ~IsRetriable(a1.raised)
        THEN RunEffect(exception(a1.s, a1.raised, Traceback(a1.raised)),
                       1, a1.raised)
        ELSE IF ~LogWorks(client)
        THEN RunEffect(exception(a1.s, LogError, Traceback(LogError)),
                       1, a1.raised)
        ELSE IF a2.raised = NoErr THEN RunEffect(a2.s, 2, a1.raised)
        ELSE RunEffect(exception(a2.s, a2.raised, Traceback(a2.raised)),
                       2, a1.raised)

(***************************************************************************)
(* wait.  The outcome of a call: kind "return" with val, or kind "raise"   *)
(* with err and tb; norm / filt count the conversion routine and filter    *)
(* callback invocations made during the call.                              *)
(***************************************************************************)
Return(v, norm, filt) ==
    [kind |-> "return", val |-> v, err |-> NoErr, tb |-> 0,
     norm |-> norm, filt |-> filt]

Raise(e, tb) ==
    [kind |-> "raise", val |-> None, err |-> e, tb |-> tb,
     norm |-> 0, filt |-> 0]

NoCall == [kind |-> "none", val |-> None, err |-> NoErr, tb |-> 0,
           norm |-> 0, filt |-> 0]

WaitEffect(out, s) == [out |-> out, s |-> s]

\* the part of BaseTask.wait after self._finished.wait() has returned
BaseTask_wait(s) ==
    IF s._exception.truthy
    THEN WaitEffect(Raise(s._exception, s._traceback), s)
    ELSE WaitEffect(Return(View(s._result, s.consumed), 0, 0), s)

\* the conversion as it would be if the converted value replaced the
\* stored result
Normalize_Caches(s, request_id) ==
    IF _is_listlike(s._result)
    THEN WaitEffect(
            Return(obj_list_to_dict(View(s._result, s.consumed), request_id),
                   1, 0),
            [s EXCEPT !.consumed = FALSE,
                      !._result = obj_list_to_dict(
                                      View(s._result, s.consumed),
                                      request_id)])
    ELSE IF _is_objlike(s._result)
    THEN WaitEffect(Return(obj_to_dict(s._result, request_id), 1, 0),
                    [s EXCEPT !._result = obj_to_dict(s._result, request_id)])
    ELSE WaitEffect(Return(s._result, 0, 0), s)

\* the conversion shared by Task.wait and RequestTask.wait; iterating a
\* generator exhausts it
Normalize(s, request_id) ==
    IF _is_listlike(s._result)
    THEN WaitEffect(
            Return(obj_list_to_dict(View(s._result, s.consumed), request_id),
                   1, 0),
            [s EXCEPT !.consumed = (s._result.kind = "generator")])
    ELSE IF _is_objlike(s._result)
    THEN WaitEffect(Return(obj_to_dict(s._result, request_id), 1, 0), s)
    ELSE WaitEffect(Return(s._result, 0, 0), s)

\* Task.wait after super(Task, self).wait() has returned
Task_post(s, raw) ==
    IF raw THEN WaitEffect(Return(View(s._result, s.consumed), 0, 0), s)
    ELSE Normalize(s, 0)

\* RequestTask.wait after super(RequestTask, self).wait() has returned;
\* __init__ does not create the attribute _request_id
RequestTask_post(s, raw) ==
    IF raw THEN WaitEffect(Return(View(s._result, s.consumed), 0, 0), s)
    ELSE IF (_is_listlike(s._result) \/ _is_objlike(s._result))
            /\ s._request_id = -1
    THEN WaitEffect(Raise(AttributeError, Traceback(AttributeError)), s)
    ELSE Normalize(s, s._request_id)

\* RunTask.wait after super(RunTask, self).wait() has returned; norm is
\* the number of conversions that call made
RunTask_post(c, s, raw, norm) ==
    IF raw THEN WaitEffect(Return(View(s._result, s.consumed), norm, 0), s)
    ELSE WaitEffect(
            Return(result_filter_cb(c, View(s._result, s.consumed)), norm, 1),
            s)

Task_wait(s, raw) ==
    LET b == BaseTask_wait(s)
    IN  IF b.out.kind = "raise" THEN b ELSE Task_post(s, raw)

RequestTask_wait(s, raw) ==
    LET b == BaseTask_wait(s)
    IN  IF b.out.kind = "raise" THEN b ELSE RequestTask_post(s, raw)

\* super(RunTask, self).wait() is Task.wait with raw = False
RunTask_wait(c, s, raw) ==
    LET t == Task_wait(s, FALSE)
    IN  IF t.out.kind = "raise" THEN t
        ELSE RunTask_post(c, t.s, raw, t.out.norm)

wait(c, s, raw) ==
    IF c.variant = "RequestTask" THEN RequestTask_wait(s, raw)
    ELSE IF c.variant = "RunTask" THEN RunTask_wait(c, s, raw)
    ELSE Task_wait(s, raw)

(***************************************************************************)
(* Spec: whole operations on a task, one after the other.                  *)
(* last[t] describes the most recent operation on t; ran[t] describes the  *)
(* most recent run of t while only wait calls have followed it.            *)
(***************************************************************************)
Op(name, raw, before, out, raised) ==
    [op |-> name, raw |-> raw, before |-> before, out |-> out,
     raised |-> raised]

NoOp == Op("none", FALSE, None, NoCall, NoErr)

RunRec(fresh, client, r, o1, o2) ==
    [valid |-> TRUE, fresh |-> fresh, client |-> client, calls |-> r.calls,
     o1 |-> o1, a1 |-> r.a1, o2 |-> IF r.calls = 2 THEN o2 ELSE NoOutcome]

NoRun ==
    [valid |-> FALSE, fresh |-> FALSE, client |-> 0, calls |-> 0,
     o1 |-> NoOutcome, a1 |-> NoErr, o2 |-> NoOutcome]

\* what done / exception are called with from outside run
DirectResults(c) ==
    IF c.variant = "RequestTask"
    THEN {Returns(None, RespKey), Returns(None, RespNoKey)}
    ELSE {Returns(Val("object", <<1>>), NoResp), Returns(None, NoResp)}

DirectErrors == {WorkError}

\* TaskManager.__init__; "None" is result_filter_cb=None
NewManager(client, filter) ==
    [_client |-> client,
     _result_filter_cb |-> IF filter = "None" THEN "identity" ELSE filter]

\* self.args = kw: the keyword mapping instance t was constructed with
\* (every construction builds its own mapping)
Kw(t) == <<t>>

\* the state after the construction of the instances, of the classes cs,
\* and of the manager
Constructed(cs, ms) ==
    /\ cls \in cs
    /\ task = [t \in Instances |-> NewTask]
    /\ args = [t \in Instances |-> Kw(t)]
    /\ manager \in ms
    /\ last = [t \in Instances |-> NoOp]
    /\ ran = [t \in Instances |-> NoRun]
    /\ ops = [t \in Instances |-> 0]
    /\ ppc = [t \in Instances |-> "idle"]
    /\ pl = [t \in Instances |-> [o |-> NoOutcome, e |-> NoErr, calls |-> 0]]
    /\ wpc = [w \in Observers |-> "idle"]
    /\ wl = [w \in Observers |-> [raw |-> FALSE, norm |-> 0, out |-> NoCall]]
    /\ wr = [t \in Instances |-> [_result |-> 0, _exception |-> 0,
                                  _traceback |-> 0, _request_id |-> 0,
                                  _response |-> 0, late |-> 0]]

\* instances of one class; any manager
Init ==
    Constructed({c \in [Instances -> Classes] :
                    \A t, u \in Instances : c[t] = c[u]},
                {NewManager(client, filter) :
                    client \in Clients, filter \in {"None", "cb"}})

\* an operation as it would be if the completion state were kept on the
\* class instead of on the instance
Step_OnClass(t, s, op, rec) ==
    /\ task' = [u \in Instances |-> IF cls[u] = cls[t] THEN s ELSE task[u]]
    /\ last' = [last EXCEPT ![t] = op]
    /\ ran' = [ran EXCEPT ![t] = rec]
    /\ ops' = [ops EXCEPT ![t] = @ + 1]
    /\ UNCHANGED <<cls, args, manager, ppc, pl, wpc, wl, wr>>

Step(t, s, op, rec) ==
    /\ task' = [task EXCEPT ![t] = s]
    /\ last' = [last EXCEPT ![t] = op]
    /\ ran' = [ran EXCEPT ![t] = rec]
    /\ ops' = [ops EXCEPT ![t] = @ + 1]
    /\ UNCHANGED <<cls, args, manager, ppc, pl, wpc, wl, wr>>

Run(t) ==
    /\ ops[t] < MaxOps
    /\ \E client \in Clients, o1 \in main(cls[t], 1) :
        \E o2 \in retry(cls[t], o1) :
          LET r == run(cls[t], task[t], client, o1, o2)
          IN  Step(t, r.s, Op("run", FALSE, None, NoCall, NoErr),
                   RunRec(task[t] = NewTask, client, r, o1, o2))

Done(t) ==
    /\ ops[t] < MaxOps
    /\ \E result \in DirectResults(cls[t]) :
          LET d == done(cls[t], task[t], result)
          IN  Step(t, d.s, Op("done", FALSE, None, NoCall, d.raised), NoRun)

Exception(t) ==
    /\ ops[t] < MaxOps
    /\ \E e \in DirectErrors :
          Step(t, exception(task[t], e, Traceback(e)),
               Op("exception", FALSE, None, NoCall, NoErr), NoRun)

\* wait blocks until the finished signal is set
Wait(t) ==
    /\ ops[t] < MaxOps
    /\ task[t]._finished
    /\ \E raw \in BOOLEAN :
          LET w == wait(cls[t], task[t], raw)
          IN  Step(t, w.s,
                   Op("wait", raw, View(task[t]._result, task[t].consumed),
                      w.out, NoErr),
                   ran[t])

\* TaskManager.submit_task: task.run(self._client), then task.wait(raw).
\* Nothing else runs in between, so when run returns with the finished
\* signal unset, self._finished.wait() never returns: the call has no
\* outcome (NoCall).
submit_task(m, c, s, o1, o2, raw) ==
    LET r == run(c, s, m._client, o1, o2)
        w == IF r.s._finished THEN wait(c, r.s, raw)
             ELSE WaitEffect(NoCall, r.s)
    IN  [r |-> r, w |-> w]

SubmitTask(t) ==
    /\ ops[t] < MaxOps
    /\ \E o1 \in main(cls[t], 1), raw \in BOOLEAN :
        \E o2 \in retry(cls[t], o1) :
          LET x == submit_task(manager, cls[t], task[t], o1, o2, raw)
          IN  Step(t, x.w.s,
                   Op("submit_task", raw,
                      View(x.r.s._result, x.r.s.consumed), x.w.out, NoErr),
                   RunRec(task[t] = NewTask, manager._client, x.r, o1, o2))

\* generate_task_class: the class RunTask closed over method, name and
\* result_filter_cb
generate_task_class(method, name, filter) == TaskCls("RunTask", FALSE, filter)

\* what submit_function is given as method: a callable or a method name
Methods == {"callable", "name"}

\* TaskManager.submit_function on a manager m; s is the task that
\* task_class(**kwargs) constructs.  self.manager is evaluated before the
\* task is constructed, and a TaskManager has no attribute manager.
submit_function(m, method, name, filter_arg, s, o1, o2) ==
    LET filter == IF filter_arg = "None" THEN m._result_filter_cb
                  ELSE filter_arg
        task_class == generate_task_class(method, name, filter)
    IN  IF "manager" \notin DOMAIN m
        THEN [called |-> FALSE, task_class |-> task_class,
              raised |-> AttributeError, s |-> s, out |-> NoCall,
              r |-> RunEffect(s, 0, NoErr)]
        ELSE LET x == submit_task(m.manager, task_class, s, o1, o2, FALSE)
             IN  [called |-> TRUE, task_class |-> task_class,
                  raised |-> NoErr, s |-> x.w.s, out |-> x.w.out,
                  r |-> x.r]

\* the task slot t stands for the instance the call would construct
SubmitFunction(t) ==
    /\ ops[t] < MaxOps
    /\ task[t] = NewTask
    /\ \E method \in Methods, filter \in {"None", "cb"},
          o1 \in main(cls[t], 1) :
        \E o2 \in retry(cls[t], o1) :
          LET x == submit_function(manager, method, "None", filter,
                                   task[t], o1, o2)
          IN  /\ cls[t] = x.task_class
              /\ Step(t, x.s,
                      Op("submit_function", FALSE, None, x.out, x.raised),
                      IF x.called
                      THEN RunRec(TRUE, manager._client, x.r, o1, o2)
                      ELSE NoRun)

Next ==
    \E t \in TaskIds :
        \/ Run(t) \/ Done(t) \/ Exception(t) \/ Wait(t) \/ SubmitTask(t)
        \/ SubmitFunction(t)

Spec == Init /\ [][Next]_vars

(***************************************************************************)
(* SpecConc: one producer thread executes run(client) on a task statement  *)
(* by statement while observer threads execute wait on it.                 *)
(* ppc[t] is the producer's position, pl[t] its locals; wpc[w] and wl[w]   *)
(* are those of observer w; wr[t] counts the producer's writes to each     *)
(* field of t, late those made with the finished signal already set.       *)
(***************************************************************************)
\* the task the observers wait on
Observed == CHOOSE t \in TaskIds : TRUE

Write(t, field) ==
    wr' = [wr EXCEPT ![t][field] = @ + 1,
                     ![t].late = @ + (IF task[t]._finished THEN 1 ELSE 0)]

Producer(t, pc, locals) ==
    /\ ppc' = [ppc EXCEPT ![t] = pc]
    /\ pl' = [pl EXCEPT ![t] = locals]
    /\ UNCHANGED <<cls, args, manager, last, ran, ops, wpc, wl>>

\* line 101: self._client = client
P_Call(t) ==
    /\ ppc[t] = "idle"
    /\ \E client \in Clients :
          task' = [task EXCEPT ![t]._client = client]
    /\ Producer(t, "main1", pl[t])
    /\ UNCHANGED wr

\* the work as it would be if the first, retriable failure were published
\* (stored, signal set) before the retry
P_Main_PublishesFirst(t) ==
    /\ ppc[t] \in {"main1", "main2"}
    /\ \E o \in main(cls[t], IF ppc[t] = "main1" THEN 1 ELSE 2) :
          LET locals == [pl[t] EXCEPT !.calls = @ + 1]
          IN  IF ~o.raises
              THEN /\ Producer(t, IF cls[t].variant = "RequestTask"
                                  THEN "req_response" ELSE "done_result",
                               [locals EXCEPT !.o = o])
                   /\ UNCHANGED task
              ELSE IF ppc[t] = "main1" /\ IsRetriable(o.err)
              THEN /\ Producer(t, "log", locals)
                   /\ task' = [task EXCEPT ![t]._exception = o.err,
                                           ![t]._finished = TRUE]
              ELSE /\ Producer(t, "exc_e", [locals EXCEPT !.e = o.err])
                   /\ UNCHANGED task
    /\ UNCHANGED wr

\* lines 105 and 110: self.main(client), and where its exception is caught
P_Main(t) ==
    /\ ppc[t] \in {"main1", "main2"}
    /\ \E o \in main(cls[t], IF ppc[t] = "main1" THEN 1 ELSE 2) :
          LET locals == [pl[t] EXCEPT !.calls = @ + 1]
          IN  IF ~o.raises
              THEN Producer(t, IF cls[t].variant = "RequestTask"
                               THEN "req_response" ELSE "done_result",
                            [locals EXCEPT !.o = o])
              ELSE IF ppc[t] = "main1" /\ IsRetriable(o.err)
              THEN Producer(t, "log", locals)
              ELSE Producer(t, "exc_e", [locals EXCEPT !.e = o.err])
    /\ UNCHANGED <<task, wr>>

\* lines 107-109: client.log.debug(...)
P_Log(t) ==
    /\ ppc[t] = "log"
    /\ IF LogWorks(task[t]._client)
       THEN Producer(t, "main2", pl[t])
       ELSE Producer(t, "exc_e", [pl[t] EXCEPT !.e = LogError])
    /\ UNCHANGED <<task, wr>>

\* line 83: self._result = result
P_DoneResult(t) ==
    /\ ppc[t] = "done_result"
    /\ task' = [task EXCEPT ![t]._result = pl[t].o.val,
                            ![t].consumed = FALSE]
    /\ Write(t, "_result")
    /\ Producer(t, "done_set", pl[t])

\* line 84: self._finished.set()
P_DoneSet(t) ==
    /\ ppc[t] = "done_set"
    /\ task' = [task EXCEPT ![t]._finished = TRUE]
    /\ Producer(t, "returned", pl[t])
    /\ UNCHANGED wr

\* line 143: self._response = result
P_ReqResponse(t) ==
    /\ ppc[t] = "req_response"
    /\ task' = [task EXCEPT ![t]._response = pl[t].o.resp]
    /\ Write(t, "_response")
    /\ Producer(t, "req_result", pl[t])

\* lines 145-156: decode the body, narrow it, self._result = ...
P_ReqResult(t) ==
    /\ ppc[t] = "req_result"
    /\ LET d == RequestTask_done(cls[t], task[t], pl[t].o)
       IN  IF d.raised # NoErr
           THEN /\ Producer(t, "exc_e", [pl[t] EXCEPT !.e = d.raised])
                /\ UNCHANGED <<task, wr>>
           ELSE /\ task' = [task EXCEPT ![t]._result = d.s._result,
                                        ![t].consumed = FALSE]
                /\ Write(t, "_result")
                /\ Producer(t, "req_rid", pl[t])

\* line 158: self._request_id = self._response.headers.get(...)
P_ReqRid(t) ==
    /\ ppc[t] = "req_rid"
    /\ task' = [task EXCEPT ![t]._request_id = task[t]._response.reqid]
    /\ Write(t, "_request_id")
    /\ Producer(t, "req_set", pl[t])

\* line 159: self._finished.set()
P_ReqSet(t) ==
    /\ ppc[t] = "req_set"
    /\ task' = [task EXCEPT ![t]._finished = TRUE]
    /\ Producer(t, "returned", pl[t])
    /\ UNCHANGED wr

\* exception as it would be if the signal were set before the traceback
\* is stored
P_ExcE_Signals(t) ==
    /\ ppc[t] = "exc_e"
    /\ task' = [task EXCEPT ![t]._exception = pl[t].e,
                            ![t]._finished = TRUE]
    /\ Write(t, "_exception")
    /\ Producer(t, "exc_tb", pl[t])

\* line 87: self._exception = e
P_ExcE(t) ==
    /\ ppc[t] = "exc_e"
    /\ task' = [task EXCEPT ![t]._exception = pl[t].e]
    /\ Write(t, "_exception")
    /\ Producer(t, "exc_tb", pl[t])

\* line 88: self._traceback = tb
P_ExcTb(t) ==
    /\ ppc[t] = "exc_tb"
    /\ task' = [task EXCEPT ![t]._traceback = Traceback(pl[t].e)]
    /\ Write(t, "_traceback")
    /\ Producer(t, "exc_set", pl[t])

\* line 89: self._finished.set()
P_ExcSet(t) ==
    /\ ppc[t] = "exc_set"
    /\ task' = [task EXCEPT ![t]._finished = TRUE]
    /\ Producer(t, "returned", pl[t])
    /\ UNCHANGED wr

Observer(w, pc, locals) ==
    /\ wpc' = [wpc EXCEPT ![w] = pc]
    /\ wl' = [wl EXCEPT ![w] = locals]
    /\ UNCHANGED <<cls, args, manager, last, ran, ops, ppc, pl, wr>>

\* an observer calls wait(raw)
W_Call(w) ==
    /\ wpc[w] = "idle"
    /\ \E raw \in BOOLEAN : Observer(w, "blocked", [wl[w] EXCEPT !.raw = raw])
    /\ UNCHANGED task

\* line 92: self._finished.wait() returns once the signal is set
W_Pass(w) ==
    /\ wpc[w] = "blocked"
    /\ task[Observed]._finished
    /\ Observer(w, "base", wl[w])
    /\ UNCHANGED task

\* lines 94-98: re-raise the stored exception or return to the subclass
W_Base(w) ==
    /\ wpc[w] = "base"
    /\ LET b == BaseTask_wait(task[Observed])
       IN  IF b.out.kind = "raise"
           THEN Observer(w, "returned", [wl[w] EXCEPT !.out = b.out])
           ELSE Observer(w, "post", wl[w])
    /\ UNCHANGED task

\* lines 123-132 and 164-173; for a RunTask this is Task.wait called with
\* raw = False from line 194
W_Post(w) ==
    /\ wpc[w] = "post"
    /\ LET c == cls[Observed]
           r == IF c.variant = "RequestTask"
                THEN RequestTask_post(task[Observed], wl[w].raw)
                ELSE IF c.variant = "RunTask"
                THEN Task_post(task[Observed], FALSE)
                ELSE Task_post(task[Observed], wl[w].raw)
       IN  /\ task' = [task EXCEPT ![Observed] = r.s]
           /\ IF c.variant = "RunTask"
              THEN Observer(w, "filter", [wl[w] EXCEPT !.norm = r.out.norm])
              ELSE Observer(w, "returned", [wl[w] EXCEPT !.out = r.out])

\* lines 196-199
W_Filter(w) ==
    /\ wpc[w] = "filter"
    /\ LET r == RunTask_post(cls[Observed], task[Observed], wl[w].raw,
                             wl[w].norm)
       IN  Observer(w, "returned", [wl[w] EXCEPT !.out = r.out])
    /\ UNCHANGED task

NextConc ==
    \/ \E t \in TaskIds :
          \/ P_Call(t) \/ P_Main(t) \/ P_Log(t)
          \/ P_DoneResult(t) \/ P_DoneSet(t)
          \/ P_ReqResponse(t) \/ P_ReqResult(t) \/ P_ReqRid(t) \/ P_ReqSet(t)
          \/ P_ExcE(t) \/ P_ExcTb(t) \/ P_ExcSet(t)
    \/ \E w \in Observers :
          W_Call(w) \/ W_Pass(w) \/ W_Base(w) \/ W_Post(w) \/ W_Filter(w)

SpecConc == Init /\ [][NextConc]_vars

(***************************************************************************)
(* SpecIso: the operations of Spec issued in any order on two instances,   *)
(* of the same class or of different classes; submit_task and              *)
(* submit_function go through the one manager.                             *)
(***************************************************************************)
\* two instances of one class built by generate_task_class, and a Task
\* next to a RequestTask
IsoClasses ==
    { [t \in Instances |-> TaskCls("RunTask", FALSE, "cb")],
      [t \in Instances |-> IF t = 1 THEN TaskCls("Task", FALSE, "identity")
                           ELSE TaskCls("RequestTask", TRUE, "identity")] }

\* a manager with the default filter and one constructed with a filter
IsoManagers == {NewManager(1, "None"), NewManager(2, "cb")}

InitIso == Constructed(IsoClasses, IsoManagers)

\* operations issued so far
Issued == ops[1] + ops[2]

NextIso ==
    \E t \in Instances :
        /\ Issued < MaxIsoOps
        /\ \/ Run(t) \/ Done(t) \/ Exception(t) \/ Wait(t) \/ SubmitTask(t)
           \/ SubmitFunction(t)

SpecIso == InitIso /\ [][NextIso]_vars

(***************************************************************************)
(* Vocabulary of the properties.                                           *)
(***************************************************************************)
ResultSet(t) == task[t]._result # None
ErrorSet(t) == task[t]._exception # NoErr

\* the first attempt of the observed run ended with the retriable failure
FirstRetriable(t) == ran[t].valid /\ IsRetriable(ran[t].a1)

\* the value done() stores for what main returned
StoredFrom(c, o) ==
    IF c.variant # "RequestTask" THEN o.val
    ELSE IF c.result_key THEN o.resp.keyval
    ELSE IF o.resp.ok THEN o.resp.body
    ELSE o.resp.text

\* the exception with which done leaves when the observed run hands it o
DoneRaised(t, o) ==
    done(cls[t], [NewTask EXCEPT !._client = ran[t].client], o).raised

\* the object a value refers to, whatever was read from it so far
Ref(v) == IF v.kind = "generator" THEN [v EXCEPT !.items = <<>>] ELSE v

\* the second attempt of the observed run completed: main returned and
\* done accepted what it returned
SecondSucceeded(t) ==
    /\ FirstRetriable(t)
    /\ ran[t].calls = 2
    /\ ~ran[t].o2.raises
    /\ DoneRaised(t, ran[t].o2) = NoErr

\* the error with which the work of the observed run finally failed
WorkFailed(t) ==
    /\ ran[t].valid
    /\ \/ ran[t].calls = 1 /\ ran[t].o1.raises /\ ~IsRetriable(ran[t].o1.err)
       \/ ran[t].calls = 2 /\ ran[t].o2.raises

WorkFailure(t) == IF ran[t].calls = 2 THEN ran[t].o2.err ELSE ran[t].o1.err

\* a call of wait (alone or inside submit_task) was the last operation
Waited(t) == last[t].op \in {"wait", "submit_task"}

(***************************************************************************)
(* C1: when the first execution of the work in a run on a newly created    *)
(* task raises the retriable transport failure and the second execution    *)
(* succeeds with v, the task is finished with no stored error, its stored  *)
(* result is the one produced from v, and wait returns instead of raising  *)
(* (the raw wait returns that stored result).                              *)
(***************************************************************************)
C1_RetryThenSuccess ==
    \A t \in TaskIds :
        (ran[t].fresh /\ SecondSucceeded(t)) =>
            /\ task[t]._finished
            /\ task[t]._exception = NoErr
            /\ task[t]._traceback = 0
            /\ task[t]._result = StoredFrom(cls[t], ran[t].o2)
            /\ \A raw \in BOOLEAN :
                  wait(cls[t], task[t], raw).out.kind = "return"
            /\ (Waited(t) => last[t].out.kind = "return")
            /\ (Waited(t) /\ last[t].raw
                    => Ref(last[t].out.val)
                          = Ref(StoredFrom(cls[t], ran[t].o2)))

C1_Witness ==
    \E t \in TaskIds :
        /\ ran[t].fresh /\ SecondSucceeded(t)
        /\ last[t].op = "wait" /\ last[t].raw
        /\ last[t].out.kind = "return"
        /\ last[t].out.val.kind = "list"

(***************************************************************************)
(* C2: when the work raises the retriable transport failure on the first   *)
(* and on the second execution of one run, the task is finished in error   *)
(* with the second failure stored, main was executed twice and not a third *)
(* time, and every later wait raises that second failure.                  *)
(***************************************************************************)
C2_RetryThenFailure ==
    \A t \in TaskIds :
        (FirstRetriable(t) /\ ran[t].calls = 2 /\ ran[t].o2.raises
            /\ IsRetriable(ran[t].o2.err)) =>
            /\ task[t]._finished
            /\ task[t]._exception = ran[t].o2.err
            /\ task[t]._exception # ran[t].o1.err
            /\ task[t]._traceback = Traceback(ran[t].o2.err)
            /\ \A raw \in BOOLEAN :
                  wait(cls[t], task[t], raw).out
                      = Raise(ran[t].o2.err, Traceback(ran[t].o2.err))
            /\ (Waited(t) => last[t].out
                                = Raise(ran[t].o2.err,
                                        Traceback(ran[t].o2.err)))

C2_Witness ==
    \E t \in TaskIds :
        /\ FirstRetriable(t) /\ ran[t].calls = 2
        /\ ran[t].o2.raises /\ IsRetriable(ran[t].o2.err)
        /\ last[t].op = "wait"
        /\ last[t].out.kind = "raise"
        /\ ops[t] = 3

(***************************************************************************)
(* C3: in one run main is executed once, and twice exactly when the first  *)
(* attempt ended with the retriable transport failure; never more than     *)
(* twice; a first attempt that fails with another error is not repeated    *)
(* and finishes the task with that error.                                  *)
(***************************************************************************)
C3_ExecutionCount ==
    \A t \in TaskIds :
        ran[t].valid =>
            /\ ran[t].calls \in {1, 2}
            /\ (ran[t].calls = 2) <=> IsRetriable(ran[t].a1)
            /\ (ran[t].a1 # NoErr /\ ~IsRetriable(ran[t].a1)) =>
                  /\ ran[t].calls = 1
                  /\ task[t]._finished
                  /\ task[t]._exception = ran[t].a1

(***************************************************************************)
(* C4 as stated: whenever the finished signal is set, exactly one of the   *)
(* stored result and the stored error is set.                              *)
(***************************************************************************)
C4_ExactlyOne ==
    \A t \in TaskIds :
        task[t]._finished => (ResultSet(t) <=> ~ErrorSet(t))

(***************************************************************************)
(* C4 amended: while a task has been completed by one run on the newly     *)
(* created task (followed by wait calls only), the finished signal is set, *)
(* the stored result and the stored error are never both set, the error is *)
(* set exactly when that run ended in failure, and neither is set exactly  *)
(* when the completed work produced None.                                  *)
(***************************************************************************)
RunFailed(t) ==
    \/ WorkFailed(t)
    \/ FirstRetriable(t) /\ ran[t].calls = 1
    \/ ran[t].a1 # NoErr /\ ~ran[t].o1.raises
    \/ ran[t].calls = 2 /\ ~ran[t].o2.raises
          /\ DoneRaised(t, ran[t].o2) # NoErr

FinalOutcome(t) == IF ran[t].calls = 2 THEN ran[t].o2 ELSE ran[t].o1

C4_AtMostOne ==
    \A t \in TaskIds :
        (ran[t].valid /\ ran[t].fresh) =>
            /\ task[t]._finished
            /\ ~(ResultSet(t) /\ ErrorSet(t))
            /\ ErrorSet(t) <=> RunFailed(t)
            /\ (~ResultSet(t) /\ ~ErrorSet(t))
                  <=> (~RunFailed(t)
                       /\ StoredFrom(cls[t], FinalOutcome(t)) = None)

C4_Witness ==
    \E t \in TaskIds :
        /\ ran[t].valid /\ ran[t].fresh
        /\ task[t]._finished
        /\ ~ResultSet(t) /\ ~ErrorSet(t)
        /\ last[t].op = "wait"

(***************************************************************************)
(* C5 as stated: once a task is finished no later operation clears the     *)
(* finished signal or changes which outcome (the stored value, or the      *)
(* stored error) wait reports.                                             *)
(***************************************************************************)
Reported(t) ==
    IF task[t]._exception.truthy
    THEN Raise(task[t]._exception, task[t]._traceback)
    ELSE Return(task[t]._result, 0, 0)

C5_Absorbing ==
    [][\A t \in TaskIds :
          task[t]._finished =>
              /\ task'[t]._finished
              /\ Reported(t)' = Reported(t)]_vars

(***************************************************************************)
(* C5 amended: once the finished signal is set no later run, done,         *)
(* exception or wait call clears it (it goes from unset to set once), and  *)
(* a wait call leaves the stored result, the stored error and its          *)
(* traceback as they are; a later run, done or exception call may          *)
(* overwrite the stored result or error.                                   *)
(***************************************************************************)
C5_SignalStaysSet ==
    [][\A t \in TaskIds :
          task[t]._finished =>
              /\ task'[t]._finished
              /\ (last'[t].op = "wait" /\ ops'[t] # ops[t])
                    => /\ task'[t]._result = task[t]._result
                       /\ task'[t]._exception = task[t]._exception
                       /\ task'[t]._traceback = task[t]._traceback]_vars

C5_Witness ==
    \E t \in TaskIds :
        /\ last[t].op = "run"
        /\ ~ran[t].fresh
        /\ ResultSet(t) /\ ErrorSet(t)
        /\ task[t]._finished

(***************************************************************************)
(* C6: on a finished task a second wait(raw) right after a wait(raw)       *)
(* returns the same value or raises the same error as the first.           *)
(***************************************************************************)
C6_WaitIdempotent ==
    \A t \in TaskIds :
        Waited(t) => wait(cls[t], task[t], last[t].raw).out = last[t].out

(***************************************************************************)
(* C9: when a run ends with the work failing with error e, every wait,     *)
(* raw or not, raises e with its traceback and never returns a value, and  *)
(* so does submit_task.                                                    *)
(***************************************************************************)
C9_ErrorReraised ==
    \A t \in TaskIds :
        WorkFailed(t) =>
            /\ \A raw \in BOOLEAN :
                  wait(cls[t], task[t], raw).out
                      = Raise(WorkFailure(t), Traceback(WorkFailure(t)))
            /\ Waited(t) =>
                  last[t].out
                      = Raise(WorkFailure(t), Traceback(WorkFailure(t)))

(***************************************************************************)
(* C10: on a task that completed successfully wait(raw = True) returns the *)
(* stored result as it was before the call, and the call applies neither   *)
(* a conversion routine nor the result filter.                             *)
(***************************************************************************)
C10_RawBypass ==
    \A t \in TaskIds :
        (Waited(t) /\ last[t].raw /\ ~ErrorSet(t)) =>
            /\ last[t].out.kind = "return"
            /\ last[t].out.val = last[t].before
            /\ last[t].out.norm = 0
            /\ last[t].out.filt = 0

(***************************************************************************)
(* C7: with one producer executing run and observers calling wait          *)
(* concurrently, no observer is past the finished signal before it is set, *)
(* and all observers that called wait with the same raw receive the same   *)
(* outcome.                                                                *)
(***************************************************************************)
C7_SameOutcome ==
    /\ \A w \in Observers :
          wpc[w] \in {"base", "post", "filter", "returned"}
              => task[Observed]._finished
    /\ \A w1, w2 \in Observers :
          (wpc[w1] = "returned" /\ wpc[w2] = "returned"
              /\ wl[w1].raw = wl[w2].raw) => wl[w1].out = wl[w2].out

(***************************************************************************)
(* C8: in every interleaving of a run with observers the producer writes   *)
(* each field an observer reads (stored result, stored error, traceback,   *)
(* request id) at most once and never after the finished signal is set;    *)
(* when the signal is set the result or the error has been written, the    *)
(* traceback with the error and the request id with a RequestTask result,  *)
(* and from then on these fields keep their values.                        *)
(***************************************************************************)
WrittenBeforeSignal(t) ==
    /\ wr[t].late = 0
    /\ \A f \in {"_result", "_exception", "_traceback", "_request_id",
                 "_response"} : wr[t][f] <= 1
    /\ task[t]._finished =>
          /\ wr[t]._result + wr[t]._exception = 1
          /\ wr[t]._traceback = wr[t]._exception
          /\ wr[t]._exception = 1 =>
                /\ task[t]._exception = pl[t].e
                /\ task[t]._traceback = Traceback(pl[t].e)
          /\ wr[t]._result = 1 =>
                task[t]._result = StoredFrom(cls[t], pl[t].o)
          /\ (cls[t].variant = "RequestTask" /\ wr[t]._result = 1) =>
                /\ wr[t]._request_id = 1
                /\ task[t]._request_id = pl[t].o.resp.reqid

C8_HappensBefore ==
    /\ [](\A t \in TaskIds : WrittenBeforeSignal(t))
    /\ [][\A t \in TaskIds :
             task[t]._finished =>
                 /\ task'[t]._finished
                 /\ task'[t]._result = task[t]._result
                 /\ task'[t]._exception = task[t]._exception
                 /\ task'[t]._traceback = task[t]._traceback
                 /\ task'[t]._request_id = task[t]._request_id]_vars

C8_Witness ==
    /\ cls[Observed].variant = "RequestTask"
    /\ ppc[Observed] = "returned"
    /\ pl[Observed].calls = 2
    /\ task[Observed]._request_id = 5
    /\ \E w \in Observers :
          /\ wpc[w] = "returned"
          /\ wl[w].out.kind = "return"
          /\ wl[w].out.val.rid = 5

(***************************************************************************)
(* C11: on a successfully finished Task or RequestTask with stored result  *)
(* r, wait(raw = False) returns the reference normalization of r: for a    *)
(* list or generator one mapping per element, in order and of the same     *)
(* length; otherwise, for anything but a bool, int, float, str, set or     *)
(* tuple, the mapping of r; otherwise r itself.                            *)
(***************************************************************************)
Scalars == {"bool", "int", "float", "str", "set", "tuple"}

Reference(r, request_id) ==
    IF r.kind \in {"list", "generator"}
    THEN [kind |-> "mappings",
          items |-> [i \in 1 .. Len(r.items) |-> r.items[i]],
          rid |-> request_id, f |-> 0]
    ELSE IF r.kind \notin Scalars
    THEN [kind |-> "mapping", items |-> r.items, rid |-> request_id,
          f |-> 0]
    ELSE r

\* the request id the conversions of task t are given
RequestId(t) ==
    IF cls[t].variant = "RequestTask" THEN task[t]._request_id ELSE 0

Succeeded(t) == task[t]._finished /\ ~ErrorSet(t)

C11_Normalization ==
    \A t \in TaskIds :
        (Waited(t) /\ ~last[t].raw /\ Succeeded(t)
            /\ cls[t].variant \in {"Task", "RequestTask"}) =>
            /\ last[t].out.kind = "return"
            /\ last[t].out.val = Reference(last[t].before, RequestId(t))
            /\ last[t].before.kind \in {"list", "generator"} =>
                  Len(last[t].out.val.items) = Len(last[t].before.items)

C11_Witness ==
    \E t \in TaskIds :
        /\ Waited(t) /\ ~last[t].raw /\ Succeeded(t)
        /\ cls[t].variant = "RequestTask"
        /\ last[t].before.kind = "list"
        /\ last[t].out.val.kind = "mappings"
        /\ Len(last[t].out.val.items) = 2
        /\ last[t].out.val.rid = 5

(***************************************************************************)
(* C12: TaskManager.submit_function builds a task with                     *)
(* generate_task_class, hands it to the manager's own submit_task and      *)
(* returns what that returns: the work is executed against the bound       *)
(* client and the caller receives its result or the work's own error.      *)
(***************************************************************************)
C12_SubmitFunction ==
    \A t \in TaskIds :
        last[t].op = "submit_function" =>
            /\ ran[t].valid
            /\ ran[t].calls >= 1
            /\ ran[t].client = manager._client
            /\ task[t]._finished
            /\ last[t].out.kind \in {"return", "raise"}
            /\ last[t].raised = NoErr

(***************************************************************************)
(* C13: a successful wait(raw = FALSE) on a task of a class built by       *)
(* generate_task_class returns the class's result filter applied to the    *)
(* normalized value (the reference normalization of the stored result).    *)
(***************************************************************************)
C13_FilterOfNormalized ==
    \A t \in TaskIds :
        (Waited(t) /\ ~last[t].raw /\ Succeeded(t)
            /\ cls[t].variant = "RunTask") =>
            /\ last[t].out.kind = "return"
            /\ last[t].out.val =
                   result_filter_cb(cls[t], Reference(last[t].before, 0))

(***************************************************************************)
(* C14: for every RequestTask class, with or without a result_key, when    *)
(* the work returns a response whose body cannot be decoded as JSON (and   *)
(* the client's log works) the task finishes with the response's raw text  *)
(* as its stored result, no error is stored, and wait does not raise.      *)
(***************************************************************************)
UndecodableBody(t) ==
    /\ ran[t].valid
    /\ cls[t].variant = "RequestTask"
    /\ LogWorks(ran[t].client)
    /\ ~FinalOutcome(t).raises
    /\ ~FinalOutcome(t).resp.ok

C14_RawTextFallback ==
    \A t \in TaskIds :
        UndecodableBody(t) =>
            /\ task[t]._finished
            /\ task[t]._exception = NoErr
            /\ task[t]._result = FinalOutcome(t).resp.text
            /\ Waited(t) => last[t].out.kind = "return"

(***************************************************************************)
(* C15: after a run of a RequestTask whose work returned a response with a *)
(* JSON body, the stored result is exactly body[k] when the class has the  *)
(* result_key k and the body contains k (nothing else of the body is       *)
(* stored), and the whole parsed body when no result_key is configured.    *)
(***************************************************************************)
DecodedBody(t) ==
    /\ ran[t].valid
    /\ cls[t].variant = "RequestTask"
    /\ ~FinalOutcome(t).raises
    /\ FinalOutcome(t).resp.ok

C15_ResultKeyNarrowing ==
    \A t \in TaskIds :
        DecodedBody(t) =>
            /\ (cls[t].result_key /\ FinalOutcome(t).resp.haskey) =>
                  /\ task[t]._finished
                  /\ task[t]._result = FinalOutcome(t).resp.keyval
                  /\ task[t]._result # FinalOutcome(t).resp.body
            /\ ~cls[t].result_key =>
                  /\ task[t]._finished
                  /\ task[t]._result = FinalOutcome(t).resp.body
            /\ task[t]._response = FinalOutcome(t).resp

C15_Witness ==
    \E t \in TaskIds :
        /\ DecodedBody(t)
        /\ cls[t].result_key
        /\ FinalOutcome(t) = Returns(None, RespKey)
        /\ task[t]._result = Val("list", <<1, 2>>)

(***************************************************************************)
(* C16: when a RequestTask with a result_key is run and the decoded JSON   *)
(* body of the response lacks the key, run still ends with the task        *)
(* finished; the lookup failure (KeyError) is stored as the task's error,  *)
(* the run stores no result, every wait that follows raises that           *)
(* KeyError, and the failure is not retried (the work is not executed      *)
(* again because of it).                                                   *)
(***************************************************************************)
MissingKey(t) ==
    /\ DecodedBody(t)
    /\ cls[t].result_key
    /\ ~FinalOutcome(t).resp.haskey

\* the step is a run of t (alone or inside submit_task)
RunStep(t) ==
    /\ ops'[t] # ops[t]
    /\ last'[t].op \in {"run", "submit_task"}

C16_MissingKey ==
    /\ [](\A t \in TaskIds :
            MissingKey(t) =>
                /\ task[t]._finished
                /\ task[t]._exception = KeyError
                /\ task[t]._traceback = Traceback(KeyError)
                /\ ran[t].fresh => task[t]._result = None
                /\ Waited(t) =>
                      /\ last[t].out.kind = "raise"
                      /\ last[t].out.err = KeyError
                /\ ~ran[t].o1.raises => ran[t].calls = 1
                /\ ran[t].calls = IF FirstRetriable(t) THEN 2 ELSE 1)
    /\ [][\A t \in TaskIds :
            (RunStep(t) /\ MissingKey(t)') =>
                task'[t]._result = task[t]._result]_vars

C16_Witness ==
    \E t \in TaskIds :
        /\ MissingKey(t)
        /\ last[t].op = "wait"
        /\ last[t].out.err = KeyError
        /\ task[t]._finished

(***************************************************************************)
(* C17: whatever the work and the completion processing do (success, the   *)
(* retriable failure once or twice, another failure of class Exception, a  *)
(* failure raised inside done or while logging the retry), run returns to  *)
(* its caller without raising and with the finished signal set; so         *)
(* submit_task always reaches wait with the signal set and has an          *)
(* outcome (a returned value or a raised stored error): it never blocks.   *)
(***************************************************************************)
C17_RunAlwaysFinishes ==
    \A t \in TaskIds :
        ran[t].valid =>
            /\ task[t]._finished
            /\ last[t].raised = NoErr
            /\ last[t].op = "submit_task" =>
                  last[t].out.kind \in {"return", "raise"}

\* the retriable failure followed by a failure while logging the retry
C17_Witness ==
    \E t \in TaskIds :
        /\ ran[t].valid /\ ran[t].fresh
        /\ last[t].op = "submit_task"
        /\ FirstRetriable(t)
        /\ ~LogWorks(ran[t].client)
        /\ ran[t].calls = 1
        /\ task[t]._finished
        /\ task[t]._exception = LogError
        /\ last[t].out = Raise(LogError, Traceback(LogError))

(***************************************************************************)
(* C18: during a run whose first attempt raised the retriable failure, at  *)
(* every point between the two attempts (while the retry is logged and     *)
(* while the work executes again) the finished signal is unset and no      *)
(* error is stored, so no concurrent waiter has been released; and no      *)
(* waiter ever observes the first attempt's failure.                       *)
(***************************************************************************)
BetweenAttempts(t) == ppc[t] \in {"log", "main2"}

C18_RetryInvisible ==
    /\ \A t \in TaskIds :
          BetweenAttempts(t) =>
              /\ pl[t].calls = 1
              /\ ~task[t]._finished
              /\ task[t]._exception = NoErr
              /\ task[t]._traceback = 0
              /\ t = Observed =>
                    \A w \in Observers : wpc[w] \in {"idle", "blocked"}
    /\ \A t \in TaskIds : task[t]._exception # RetriableA
    /\ \A w \in Observers : wl[w].out.err # RetriableA

C18_Witness ==
    /\ ppc[Observed] = "main2"
    /\ pl[Observed].calls = 1
    /\ \A w \in Observers : wpc[w] = "blocked"

(***************************************************************************)
(* C19: task isolation.  For two distinct task instances, also of the same *)
(* class built by generate_task_class and submitted through the same       *)
(* manager, in any order of the operations: an operation on one instance   *)
(* (run, done, exception, wait, submit_task, submit_function) leaves the   *)
(* other's finished signal, stored result, stored error and argument       *)
(* mapping unchanged; and no operation, submit_task included, changes the  *)
(* manager's bound client or default filter.                               *)
(***************************************************************************)
OperationOn(t) == ops'[t] # ops[t]

C19_TaskIsolation ==
    [][\A t, u \in Instances :
          (OperationOn(t) /\ u # t) =>
              /\ task'[u]._finished = task[u]._finished
              /\ task'[u]._result = task[u]._result
              /\ task'[u].consumed = task[u].consumed
              /\ task'[u]._exception = task[u]._exception
              /\ task'[u]._traceback = task[u]._traceback
              /\ args'[u] = args[u]
              /\ args'[t] = args[t]
              /\ manager'._client = manager._client
              /\ manager'._result_filter_cb = manager._result_filter_cb]_vars

\* two instances of one generated class, both submitted through the
\* manager, finished with different outcomes
C19_Witness ==
    /\ cls[1] = cls[2]
    /\ cls[1].variant = "RunTask"
    /\ last[1].op = "submit_task"
    /\ last[2].op = "submit_task"
    /\ task[1]._finished /\ task[2]._finished
    /\ ResultSet(1) /\ ~ErrorSet(1)
    /\ ErrorSet(2) /\ ~ResultSet(2)
    /\ args[1] # args[2]
====
